---- MODULE Spec2Model ----
(***************************************************************************)
(* Model of the My Daily Hug backend (smatterings88/mydailyhug-backend).   *)
(*                                                                         *)
(* The repository holds two Express programs over the same Firebase        *)
(* project: src/unnamed/part_000 (the guarded server, called "part_000"    *)
(* below) and src/server.js (an earlier server without guards, called      *)
(* "server.js").  The variable app says which program is running.          *)
(*                                                                         *)
(* A request is a task that runs from one await to the next; every action   *)
(* below is one such run: it performs the awaited call against the         *)
(* identity provider or the document store and then the synchronous code    *)
(* up to the next awaited call.  JavaScript strings that the code takes     *)
(* apart (emails, names, the Authorization header) are sequences; strings   *)
(* the code only compares or stores (uids, passwords, enum literals) are    *)
(* TLA+ strings, "" being the empty (falsy) string or a missing value.      *)
(***************************************************************************)
EXTENDS Integers, Sequences, FiniteSets, TLC

VARIABLES
    app,        \* which program serves the requests: "part_000" or "server.js"
    envKey,     \* process.env.GHL_API_KEY ("" when unconfigured)
    authUsers,  \* identity provider: uid -> [email, password, claims]
    users,      \* document store, collection 'users': doc id -> fields
    now,        \* the clock read by Timestamp.now() / serverTimestamp()
    flaky,      \* whether the platform services may throw errors of their own
    req,        \* per client slot: the request in flight and the handler's locals
    res,        \* per client slot: the response sent (status 0: none yet)
    calls,      \* per client slot: external calls made for the current request
    pre,        \* per client slot: the stores as they were when the request arrived
    served      \* number of requests received so far

vars == <<app, envKey, authUsers, users, now, flaky, req, res, calls, pre, served>>

---------------------------------------------------------------------------
(* Bounds of the model *)

\* Largest value of the clock.
MaxTime == 1
\* Number of requests the clients send in one behaviour.
MaxRequests == 2
\* Number of clients that may have a request in flight at once (SpecConc).
MaxClients == 2

---------------------------------------------------------------------------
(* JavaScript values *)

Undefined == [t |-> "undefined", s |-> <<>>]
Str(s) == [t |-> "string", s |-> s]
\* a body field that is a (non-zero) number instead of a string
NumberValue == [t |-> "number", s |-> <<"7">>]

\* JavaScript truthiness: undefined and the empty string are falsy.
Truthy(v) == \/ v.t = "string" /\ Len(v.s) > 0
             \/ v.t = "number"

IsWhitespace(c) == c = " "

\* /^[^\s@]+@[^\s@]+\.[^\s@]+$/.test(email), email a string:
\* some '@' at i and some '.' at j split the string into three non-empty runs
\* of characters that are neither whitespace nor '@' (the runs may hold dots).
EmailRegexTest(s) ==
    \E i \in 1..Len(s) : \E j \in 1..Len(s) :
        /\ s[i] = "@" /\ s[j] = "."
        /\ 1 < i /\ i + 1 < j /\ j < Len(s)
        /\ \A k \in (1..Len(s)) \ {i} : s[k] # "@" /\ ~IsWhitespace(s[k])

RECURSIVE TrimStart(_)
TrimStart(s) == IF s # <<>> /\ IsWhitespace(Head(s)) THEN TrimStart(Tail(s)) ELSE s

RECURSIVE TrimEnd(_)
TrimEnd(s) == IF s # <<>> /\ IsWhitespace(s[Len(s)])
              THEN TrimEnd(SubSeq(s, 1, Len(s) - 1)) ELSE s

\* String.prototype.trim
Trim(s) == TrimEnd(TrimStart(s))

\* `${firstName || ''} ${lastName || ''}`.trim()
FullName(firstName, lastName) == Trim(firstName \o <<" ">> \o lastName)

---------------------------------------------------------------------------
(* The world the requests come from *)

AdminUid == "u1"
NewUid == "u2"
\* a uid no identity ever has (a caller may still name it in a body)
GhostUid == "zz"
Uids == {AdminUid, NewUid}

AdminEmail == <<"a", "@", "x", ".", "c">>
NewEmail == <<"n", "@", "x", ".", "c">>
ValidEmails == {AdminEmail, NewEmail}
\* strings the email regex rejects: no '@', no dot after the '@', whitespace
MalformedEmails == {<<"n", "x">>, <<"n", "@", "x">>, <<"n", " ", "@", "x", ".", "c">>}

EmailInputs == {Undefined, NumberValue, Str(<<>>)}
               \cup {Str(e) : e \in ValidEmails \cup MalformedEmails}

\* Math.random().toString(36).slice(-8) + ...slice(-4): never empty
RandomPasswords == {"pwRandom"}
TempPasswordInputs == {"", "pwGiven"}

GoodKey == "key1"
ApiKeyInputs == {"", GoodKey, "key2"}
EnvKeys == {"", GoodKey}

\* An ID token names the identity it was issued to; verifyIdToken accepts it
\* when that identity exists.  "junk" is a token the provider rejects.
Tokens == Uids \cup {"junk"}
AuthorizationInputs ==
    {<<>>} \cup {<<"Basic ", tok>> : tok \in {"junk"}}
           \cup {<<"Bearer ", tok>> : tok \in Tokens}

Clients == 1..MaxClients

---------------------------------------------------------------------------
(* Routes *)

GrantAdmin == "/api/grant-admin"
CreateUser == "/api/create-user"
GhlCreateUser == "/api/ghl/create-user"
GhlCreateTrialUser == "/api/ghl/create-trial-user"
MakeInactive == "/api/make-inactive"
GhlMakeInactive == "/api/ghl/make-inactive"
MakeActive == "/api/make-active"
GhlMakeActive == "/api/ghl/make-active"
SendNotification == "/api/send-notification"
RemovePasswordChangeRequirement == "/api/remove-password-change-requirement"

ProvisionRoutes == {GrantAdmin, CreateUser, GhlCreateUser, GhlCreateTrialUser}
\* the routes that answer 409 when the email already has an identity
CreateNewRoutes == {CreateUser, GhlCreateUser, GhlCreateTrialUser}
\* the lifecycle routes the source files register
InactiveRoutes == {MakeInactive, GhlMakeInactive}
\* the lifecycle routes only the documentation describes
ActiveRoutes == {MakeActive, GhlMakeActive}
StatusRoutes == InactiveRoutes \cup ActiveRoutes
\* the paths requests are sent to
Paths == ProvisionRoutes \cup StatusRoutes \cup {RemovePasswordChangeRequirement}

\* app.post(path, ...) registrations of each program
RoutesOf(a) ==
    IF a = "server.js"
    THEN {SendNotification, GrantAdmin, RemovePasswordChangeRequirement}
    ELSE {SendNotification, RemovePasswordChangeRequirement}
         \cup ProvisionRoutes \cup InactiveRoutes

\* the middleware registered in front of the handler
GuardOf(a, route) ==
    IF a = "server.js" THEN "none"
    ELSE IF route \in {GrantAdmin, CreateUser, MakeInactive}
         THEN "authenticateAdmin"
         ELSE IF route \in {SendNotification, RemovePasswordChangeRequirement} THEN "none"
         ELSE "authenticateApiKey"

\* whether the handler tests the email against emailRegex
HasEmailRegex(a, route) == a = "part_000"

---------------------------------------------------------------------------
(* Requests, responses and the bookkeeping of external calls *)

NoRequest ==
    [pc |-> "idle", route |-> "", authorization |-> <<>>, apiKey |-> "",
     email |-> Undefined, uid |-> "", tempPassword |-> "",
     firstName |-> <<>>, lastName |-> <<>>,
     \* locals of the middleware and of the handler
     decodedUid |-> "", user |-> "", adminDisplayName |-> <<>>, userRecord |-> "",
     generated |-> "", effective |-> "", targetUid |-> "",
     \* body and locals of send-notification
     title |-> "", body |-> "", targetType |-> "", targetUsers |-> <<>>,
     readIds |-> <<>>, filter |-> "", tokens |-> <<>>, results |-> <<>>,
     \* a platform service threw an error of its own during this request
     faulted |-> FALSE]

NoResponse ==
    [status |-> 0, error |-> "", uid |-> "", tempPassword |-> "", accountStatus |-> "",
     stats |-> <<>>]

NoCalls ==
    [verifyIdToken |-> 0, get |-> 0, getUserByEmail |-> 0, createUser |-> 0,
     updateUser |-> 0, setCustomUserClaims |-> 0, set |-> 0,
     where |-> 0, query |-> 0, send |-> 0]

Count(r, call) == [calls EXCEPT ![r][call] = @ + 1]

\* res.status(code).json(body): the request is over
Respond(r, q, response) ==
    /\ req' = [req EXCEPT ![r] = [q EXCEPT !.pc = "done"]]
    /\ res' = [res EXCEPT ![r] = response]

Error(code, message) == [NoResponse EXCEPT !.status = code, !.error = message]

\* the next run of the request's task starts at pc
Goto(r, q, pc) ==
    /\ req' = [req EXCEPT ![r] = [q EXCEPT !.pc = pc]]
    /\ res' = res

FaultChoices == IF flaky THEN BOOLEAN ELSE {FALSE}

---------------------------------------------------------------------------
(* The two stores *)

\* admin.auth().getUserByEmail(email): "invalid" is an error other than
\* auth/user-not-found (the provider rejects what is not an email address)
LookupByEmail(email) ==
    IF email.t # "string" \/ ~EmailRegexTest(email.s) THEN "invalid"
    ELSE IF \E u \in DOMAIN authUsers : authUsers[u].email = email.s
         THEN CHOOSE u \in DOMAIN authUsers : authUsers[u].email = email.s
         ELSE "auth/user-not-found"

\* custom claims that something other than this service gave an identity
ForeignClaims == {<<"beta", TRUE>>}

\* the uid the provider gives the next identity
FreshUid == CHOOSE u \in Uids : u \notin DOMAIN authUsers

\* doc.set(data, { merge: true }): fields of data replace, the others stay
Merge(old, data) ==
    [f \in DOMAIN old \cup DOMAIN data |-> IF f \in DOMAIN data THEN data[f] ELSE old[f]]

EmptyDoc == [f \in {} |-> 0]

DocOrEmpty(id) == IF id \in DOMAIN users THEN users[id] ELSE EmptyDoc

\* db.collection('users').doc(id).set(data, { merge: true })
SetMerge_Overwrite(id, data) ==
    [d \in DOMAIN users \cup {id} |-> IF d = id THEN data ELSE users[d]]

SetMerge_DropsOthers(id, data) == [d \in {id} |-> Merge(DocOrEmpty(id), data)]

SetMerge(id, data) ==
    [d \in DOMAIN users \cup {id} |->
        IF d = id THEN Merge(DocOrEmpty(id), data) ELSE users[d]]

\* the profile the first administrator was given when the project was set up
AdminProfile ==
    [f \in {"uid", "email", "userType", "displayName"} |->
        CASE f = "uid" -> AdminUid
          [] f = "email" -> AdminEmail
          [] f = "userType" -> "admin"
          [] f = "displayName" -> <<"R", "o">>]

---------------------------------------------------------------------------
(* Middleware *)

\* authHeader.split('Bearer ')[1]
IdTokenOf(authHeader) == IF Len(authHeader) >= 2 THEN authHeader[2] ELSE ""

\* !authHeader || !authHeader.startsWith('Bearer ')
BearerMissing(authHeader) == authHeader = <<>> \/ authHeader[1] # "Bearer "

\* the name authenticateAdmin attaches as req.adminDisplayName
ProfileName(profile, tokenName, tokenEmail) ==
    LET field(f) == IF f \in DOMAIN profile THEN profile[f] ELSE <<>>
        displayName == Trim(field("displayName"))
        fullName == FullName(field("firstName"), field("lastName"))
    IN  IF displayName # <<>> THEN displayName
        ELSE IF fullName # <<>> THEN fullName
        ELSE IF tokenName # <<>> THEN tokenName
        ELSE IF tokenEmail # <<>> THEN tokenEmail
        ELSE <<"Admin">>

\* !userDoc.exists || userDoc.data().userType !== 'admin'
NotAdmin_ExistsOnly(uid) == uid \notin DOMAIN users

NotAdmin_OrInactive(uid) ==
    \/ uid \notin DOMAIN users
    \/ "userType" \notin DOMAIN users[uid]
    \/ users[uid]["userType"] # "admin"
    \/ "accountStatus" \in DOMAIN users[uid] /\ users[uid]["accountStatus"] = "Inactive"

NotAdmin(uid) ==
    \/ uid \notin DOMAIN users
    \/ "userType" \notin DOMAIN users[uid]
    \/ users[uid]["userType"] # "admin"

\* authenticateAdmin up to and including `await verifyIdToken(idToken)`
authenticateAdmin(r) ==
    LET q == req[r] IN
    /\ q.pc = "authenticateAdmin"
    /\ UNCHANGED <<app, envKey, authUsers, users, now, flaky, pre, served>>
    /\ IF BearerMissing(q.authorization)
       THEN /\ Respond(r, q, Error(401, "Authorization header required"))
            /\ calls' = calls
       ELSE /\ calls' = Count(r, "verifyIdToken")
            /\ \E fault \in FaultChoices :
                 IF fault \/ IdTokenOf(q.authorization) \notin DOMAIN authUsers
                 THEN Respond(r, [q EXCEPT !.faulted = fault],
                              Error(401, "Invalid or expired token"))
                 ELSE Goto(r, [q EXCEPT !.decodedUid = IdTokenOf(q.authorization)],
                           "loadProfile")

\* authenticateAdmin from `await db.collection('users').doc(uid).get()` to next()
loadProfile(r) ==
    LET q == req[r] IN
    /\ q.pc = "loadProfile"
    /\ UNCHANGED <<app, envKey, authUsers, users, now, flaky, pre, served>>
    /\ calls' = Count(r, "get")
    /\ \E fault \in FaultChoices :
         IF fault
         THEN Respond(r, [q EXCEPT !.faulted = TRUE],
                      Error(401, "Invalid or expired token"))
         ELSE IF NotAdmin(q.decodedUid)
         THEN Respond(r, q, Error(403, "Admin access required"))
         ELSE Goto(r, [q EXCEPT !.user = q.decodedUid, !.adminDisplayName =
                          ProfileName(users[q.decodedUid],
                                      authUsers[q.decodedUid].displayName,
                                      authUsers[q.decodedUid].email)],
                   "handler")

\* authenticateApiKey: the outcome for a provided and an expected key
\* (0: next() is called)
ApiKeyOutcome_MatchFirst(providedKey, expectedKey) ==
    IF providedKey = "" THEN 401
    ELSE IF providedKey # expectedKey THEN 403
    ELSE IF expectedKey = "" THEN 500
    ELSE 0

ApiKeyOutcome(providedKey, expectedKey) ==
    IF providedKey = "" THEN 401
    ELSE IF expectedKey = "" THEN 500
    ELSE IF providedKey # expectedKey THEN 403
    ELSE 0

ApiKeyError(code) ==
    CASE code = 401 -> "X-API-Key header required"
      [] code = 500 -> "Server configuration error"
      [] code = 403 -> "Invalid API key"

authenticateApiKey(r) ==
    LET q == req[r]
        outcome == ApiKeyOutcome(q.apiKey, envKey)
    IN
    /\ q.pc = "authenticateApiKey"
    /\ UNCHANGED <<app, envKey, authUsers, users, now, flaky, pre, served, calls>>
    /\ IF outcome # 0
       THEN Respond(r, q, Error(outcome, ApiKeyError(outcome)))
       ELSE Goto(r, q, "handler")

---------------------------------------------------------------------------
(* Provisioning: grant-admin, create-user, ghl/create-user,
   ghl/create-trial-user *)

\* !email || typeof email !== 'string', then !emailRegex.test(email)
EmailError(a, route, email) ==
    IF ~Truthy(email) \/ email.t # "string" THEN "Valid email is required"
    ELSE IF HasEmailRegex(a, route) /\ ~EmailRegexTest(email.s) THEN "Invalid email format"
    ELSE ""

\* the catch block of the handler: res.status(500)
Thrown(r, q, message, fault) ==
    Respond(r, [q EXCEPT !.faulted = fault], Error(500, message))

\* what a lookup hit does on the route
OnExisting_Update(route) == "update"

OnExisting_AdminRouteOnly(route) == IF route = CreateUser THEN "conflict" ELSE "update"

OnExisting(route) == IF route \in CreateNewRoutes THEN "conflict" ELSE "update"

Rotates_Always(tempPassword) == TRUE

\* if (!effectiveTempPassword && tempPassword), for an identity that was found
Rotates(tempPassword) == tempPassword # ""

\* the handler from its first line to `await getUserByEmail(email)` and on to
\* the next awaited call
handleProvision(r) ==
    LET q == req[r]
        invalid == EmailError(app, q.route, q.email)
        found == LookupByEmail(q.email)
    IN
    /\ q.pc = "handler" /\ q.route \in ProvisionRoutes
    /\ UNCHANGED <<app, envKey, authUsers, users, now, flaky, pre, served>>
    /\ IF invalid # ""
       THEN /\ Respond(r, q, Error(400, invalid))
            /\ calls' = calls
       ELSE /\ calls' = Count(r, "getUserByEmail")
            /\ \E fault \in FaultChoices :
                 IF fault \/ found = "invalid"
                 THEN Thrown(r, q, "getUserByEmail", fault)
                 ELSE IF found = "auth/user-not-found"
                 THEN Goto(r, q, "createUser")
                 ELSE IF OnExisting(q.route) = "conflict"
                 THEN Respond(r, q, [Error(409, "User already exists with this email")
                                        EXCEPT !.uid = found])
                 ELSE Goto(r, [q EXCEPT !.userRecord = found],
                           IF Rotates(q.tempPassword) THEN "updateUser"
                           ELSE "setCustomUserClaims")

AfterWrite_ProfileFirst(call) == "set"

\* the awaited write that follows a write in the handler's text: the claims
\* after the identity, the profile after the claims
AfterWrite(call) == IF call = "setCustomUserClaims" THEN "set" ELSE "setCustomUserClaims"

\* where the handler goes when createUser throws
AfterCreateRejected_Swallow(r, q, fault) ==
    Goto(r, [q EXCEPT !.faulted = fault, !.userRecord = LookupByEmail(q.email)],
         "setCustomUserClaims")

AfterCreateRejected(r, q, fault) == Thrown(r, q, "createUser", fault)

\* `await admin.auth().createUser({ email, password: generated })`
createUser(r) ==
    LET q == req[r] IN
    /\ q.pc = "createUser"
    /\ UNCHANGED <<app, envKey, users, now, flaky, pre, served>>
    /\ calls' = Count(r, "createUser")
    /\ \E random \in RandomPasswords : \E fault \in FaultChoices :
         LET generated == IF q.tempPassword # "" THEN q.tempPassword ELSE random IN
         IF fault \/ LookupByEmail(q.email) \in DOMAIN authUsers
         THEN \* an error of the provider's own, or auth/email-already-exists
              /\ AfterCreateRejected(r, q, fault)
              /\ authUsers' = authUsers
         ELSE /\ authUsers' =
                    [u \in DOMAIN authUsers \cup {FreshUid} |->
                        IF u = FreshUid
                        THEN [email |-> q.email.s, password |-> generated,
                              claims |-> {}, displayName |-> <<>>]
                        ELSE authUsers[u]]
              /\ Goto(r, [q EXCEPT !.userRecord = FreshUid, !.generated = generated,
                                   !.effective = generated],
                      AfterWrite("createUser"))

\* `await admin.auth().updateUser(userRecord.uid, { password: tempPassword })`
updateUser(r) ==
    LET q == req[r] IN
    /\ q.pc = "updateUser"
    /\ UNCHANGED <<app, envKey, users, now, flaky, pre, served>>
    /\ calls' = Count(r, "updateUser")
    /\ \E fault \in FaultChoices :
         IF fault
         THEN /\ Thrown(r, q, "updateUser", TRUE)
              /\ authUsers' = authUsers
         ELSE /\ authUsers' = [authUsers EXCEPT ![q.userRecord].password = q.tempPassword]
              /\ Goto(r, [q EXCEPT !.effective = q.tempPassword], AfterWrite("updateUser"))

\* the claims map handed to setCustomUserClaims, which replaces the old one
NewClaims_Merged(old) ==
    {c \in old : c[1] # "mustChangePassword"} \cup {<<"mustChangePassword", TRUE>>}

NewClaims(old) == {<<"mustChangePassword", TRUE>>}

\* `await admin.auth().setCustomUserClaims(userRecord.uid, {...})`
setCustomUserClaims(r) ==
    LET q == req[r] IN
    /\ q.pc = "setCustomUserClaims"
    /\ UNCHANGED <<app, envKey, users, now, flaky, pre, served>>
    /\ calls' = Count(r, "setCustomUserClaims")
    /\ \E fault \in FaultChoices :
         IF fault
         THEN /\ Thrown(r, q, "setCustomUserClaims", TRUE)
              /\ authUsers' = authUsers
         ELSE /\ authUsers' = [authUsers EXCEPT ![q.userRecord].claims = NewClaims(@)]
              /\ Goto(r, q, AfterWrite("setCustomUserClaims"))

\* the fixed part of userData on each route
UserTypeOf(route) == IF route = GrantAdmin THEN "admin" ELSE "user"

AccountTypeOf(route) ==
    CASE route \in {GrantAdmin, CreateUser} -> "Admin-Created"
      [] route = GhlCreateUser -> "Premium"
      [] route = GhlCreateTrialUser -> "Trial"

CreationEndpointOf(route) ==
    CASE route = GrantAdmin -> "grant_admin"
      [] route = CreateUser -> "create_user"
      [] route = GhlCreateUser -> "ghl_create_user"
      [] route = GhlCreateTrialUser -> "ghl_create_trial_user"

\* req.adminDisplayName || 'Admin' on the admin routes, 'GHL' on the others
CreatedBy(route, q) ==
    IF route \in {GrantAdmin, CreateUser}
    THEN (IF q.adminDisplayName # <<>> THEN q.adminDisplayName ELSE <<"Admin">>)
    ELSE <<"GHL">>

\* `${firstName || ''} ${lastName || ''}`.trim() || userRecord.displayName || ''
DisplayNameOf(q) ==
    IF FullName(q.firstName, q.lastName) # <<>> THEN FullName(q.firstName, q.lastName)
    ELSE authUsers[q.userRecord].displayName

\* whether userData carries createdAt: `if (userRecord._generatedTempPassword)` on
\* the admin routes, always on the GHL routes (which only get here after a create)
WritesCreatedAt_Always(route, q) == TRUE

WritesCreatedAt(route, q) ==
    IF route \in {GrantAdmin, CreateUser} THEN q.generated # "" ELSE TRUE

\* whether userData carries tempPassword and passwordGeneratedAt
WritesTempPassword_Never(route, q) == FALSE

WritesTempPassword(route, q) ==
    IF route \in {GrantAdmin, CreateUser} THEN q.effective # "" ELSE TRUE

\* userData.tempPassword: effectiveTempPassword on the admin routes, generated
\* on the GHL routes
TempPasswordOf_Supplied(route, q) == q.tempPassword

TempPasswordOf(route, q) ==
    IF route \in {GrantAdmin, CreateUser} THEN q.effective ELSE q.generated

\* the fields of userData
UserDataFields(a, route, q) ==
    {"uid", "email", "userType", "updatedAt"}
    \cup (IF a = "server.js" THEN {}
          ELSE {"accountType", "creationEndpoint", "createdBy", "accountStatus"})
    \cup (IF q.firstName # <<>> THEN {"firstName"} ELSE {})
    \cup (IF q.lastName # <<>> THEN {"lastName"} ELSE {})
    \cup (IF DisplayNameOf(q) # <<>> THEN {"displayName"} ELSE {})
    \cup (IF WritesTempPassword(route, q) THEN {"tempPassword", "passwordGeneratedAt"}
          ELSE {})
    \cup (IF WritesCreatedAt(route, q) THEN {"createdAt"} ELSE {})

UserData(a, route, q, t) ==
    [f \in UserDataFields(a, route, q) |->
        CASE f = "uid" -> q.userRecord
          [] f = "email" -> q.email.s
          [] f = "userType" -> UserTypeOf(route)
          [] f = "accountType" -> AccountTypeOf(route)
          [] f = "creationEndpoint" -> CreationEndpointOf(route)
          [] f = "createdBy" -> CreatedBy(route, q)
          [] f = "accountStatus" -> "Active"
          [] f = "updatedAt" -> t
          [] f = "firstName" -> q.firstName
          [] f = "lastName" -> q.lastName
          [] f = "displayName" -> DisplayNameOf(q)
          [] f = "tempPassword" -> TempPasswordOf(route, q)
          [] f = "passwordGeneratedAt" -> t
          [] f = "createdAt" -> t]

\* `await db.collection('users').doc(uid).set(userData, { merge: true })` and
\* the response
writeProfile(r) ==
    LET q == req[r] IN
    /\ q.pc = "set" /\ q.route \in ProvisionRoutes
    /\ UNCHANGED <<app, envKey, authUsers, now, flaky, pre, served>>
    /\ calls' = Count(r, "set")
    /\ \E fault \in FaultChoices :
         IF fault
         THEN /\ Thrown(r, q, "set", TRUE)
              /\ users' = users
         ELSE /\ users' = SetMerge(q.userRecord, UserData(app, q.route, q, now))
              /\ Respond(r, q, [NoResponse EXCEPT !.status = 200, !.uid = q.userRecord,
                                    !.tempPassword = TempPasswordOf(q.route, q)])

---------------------------------------------------------------------------
(* Lifecycle: make-inactive, ghl/make-inactive *)

\* the accountStatus the route writes
StatusOf(route) == "Inactive"

\* the accountStatus the route reports in its response
ReportedStatusOf(route) == "inactive"

\* !uid && !email
NoTarget_UndefinedOnly(uid, email) == uid = "" /\ email = Undefined

NoTarget(uid, email) == uid = "" /\ ~Truthy(email)

\* the answer to a lookup that finds no identity for the email:
\* `if (err && err.code === 'auth/user-not-found') return res.status(404)`
LookupMiss_Rethrown == Error(500, "auth/user-not-found")

LookupMiss == Error(404, "User not found for provided email")

\* the handler from its first line to the end of the uid resolution
handleStatus(r) ==
    LET q == req[r]
        found == LookupByEmail(q.email)
    IN
    /\ q.pc = "handler" /\ q.route \in StatusRoutes
    /\ UNCHANGED <<app, envKey, authUsers, users, now, flaky, pre, served>>
    /\ IF NoTarget(q.uid, q.email)
       THEN /\ Respond(r, q, Error(400, "uid or email is required"))
            /\ calls' = calls
       ELSE IF q.uid # ""
       THEN /\ Goto(r, [q EXCEPT !.targetUid = q.uid], "set")
            /\ calls' = calls
       ELSE /\ calls' = Count(r, "getUserByEmail")
            /\ \E fault \in FaultChoices :
                 IF fault \/ found = "invalid"
                 THEN Thrown(r, q, "getUserByEmail", fault)
                 ELSE IF found = "auth/user-not-found"
                 THEN Respond(r, q, LookupMiss)
                 ELSE Goto(r, [q EXCEPT !.targetUid = found], "set")

\* the data of the lifecycle write
StatusData_WithChangedAt(route, uid, t) ==
    [f \in {"accountStatus", "updatedAt", "statusChangedAt"} |->
        CASE f = "accountStatus" -> StatusOf(route)
          [] f = "updatedAt" -> t
          [] f = "statusChangedAt" -> t]

StatusData_WithUid(route, uid, t) ==
    [f \in {"accountStatus", "updatedAt", "uid"} |->
        CASE f = "accountStatus" -> StatusOf(route)
          [] f = "updatedAt" -> t
          [] f = "uid" -> uid]

StatusData(route, uid, t) ==
    [f \in {"accountStatus", "updatedAt"} |->
        CASE f = "accountStatus" -> StatusOf(route)
          [] f = "updatedAt" -> t]

\* `await db.collection('users').doc(targetUid).set({...}, { merge: true })`
\* and the response
writeStatus(r) ==
    LET q == req[r] IN
    /\ q.pc = "set" /\ q.route \in StatusRoutes
    /\ UNCHANGED <<app, envKey, authUsers, now, flaky, pre, served>>
    /\ calls' = Count(r, "set")
    /\ \E fault \in FaultChoices :
         IF fault
         THEN /\ Thrown(r, q, "set", TRUE)
              /\ users' = users
         ELSE /\ users' = SetMerge(q.targetUid, StatusData(q.route, q.targetUid, now))
              /\ Respond(r, q, [NoResponse EXCEPT !.status = 200, !.uid = q.targetUid,
                                    !.accountStatus = ReportedStatusOf(q.route)])

---------------------------------------------------------------------------
(* POST /api/remove-password-change-requirement *)

\* the handler from its first line to `await setCustomUserClaims(uid, ...)`
handleRequirement(r) ==
    /\ req[r].pc = "handler"
    /\ req[r].route = RemovePasswordChangeRequirement
    /\ IF req[r].uid = ""
       THEN Respond(r, req[r], Error(400, "User ID is required"))
       ELSE Goto(r, req[r], "clearRequirement")
    /\ UNCHANGED <<app, envKey, authUsers, users, now, flaky, calls, pre, served>>

\* `await admin.auth().setCustomUserClaims(uid, { mustChangePassword: false })`:
\* the provider rejects a uid it has no identity for
clearRequirement(r) ==
    LET q == req[r] IN
    /\ q.pc = "clearRequirement"
    /\ UNCHANGED <<app, envKey, users, now, flaky, pre, served>>
    /\ calls' = Count(r, "setCustomUserClaims")
    /\ \E fault \in FaultChoices :
         IF fault \/ q.uid \notin DOMAIN authUsers
         THEN /\ Thrown(r, q, "setCustomUserClaims", fault)
              /\ authUsers' = authUsers
         ELSE /\ authUsers' = [authUsers EXCEPT ![q.uid].claims =
                                    {<<"mustChangePassword", FALSE>>}]
              /\ Respond(r, q, [NoResponse EXCEPT !.status = 200])

---------------------------------------------------------------------------
(* Arrival of requests, the clock, and the specifications *)

\* Express hands the request to the first middleware registered for the route
FirstStep(a, route) ==
    IF route \notin RoutesOf(a) THEN "notFound"
    ELSE IF GuardOf(a, route) = "none" THEN "handler" ELSE GuardOf(a, route)

Arrive(r, route, headers, body) ==
    /\ req[r].pc = "idle"
    /\ served < MaxRequests
    /\ served' = served + 1
    /\ req' = [req EXCEPT ![r] =
                 [NoRequest EXCEPT !.pc = FirstStep(app, route), !.route = route,
                                   !.authorization = headers.authorization,
                                   !.apiKey = headers.apiKey,
                                   !.email = body.email, !.uid = body.uid,
                                   !.tempPassword = body.tempPassword,
                                   !.firstName = body.firstName,
                                   !.lastName = body.lastName]]
    /\ res' = [res EXCEPT ![r] = NoResponse]
    /\ calls' = [calls EXCEPT ![r] = NoCalls]
    /\ pre' = [pre EXCEPT ![r] = [authUsers |-> authUsers, users |-> users]]
    /\ UNCHANGED <<app, envKey, authUsers, users, now, flaky>>

Body(email, uid, tempPassword, firstName, lastName) ==
    [email |-> email, uid |-> uid, tempPassword |-> tempPassword,
     firstName |-> firstName, lastName |-> lastName]

Headers(authorization, apiKey) == [authorization |-> authorization, apiKey |-> apiKey]

\* request bodies sent to the provisioning routes
ProvisionBodies ==
    {Body(e, "", "", <<>>, <<>>) : e \in EmailInputs}
    \cup {Body(Str(NewEmail), "", "pwGiven", <<"J">>, <<"D">>)}

\* request bodies sent to the lifecycle routes
StatusBodies ==
    {Body(Undefined, u, "", <<>>, <<>>) : u \in {"", GhostUid} \cup DOMAIN authUsers}
    \cup {Body(Str(e), "", "", <<>>, <<>>) : e \in {<<>>, NewEmail, <<"n", "x">>}}
    \cup {Body(Str(NewEmail), GhostUid, "", <<>>, <<>>)}

\* request bodies sent to remove-password-change-requirement
RequirementBodies ==
    {Body(Undefined, u, "", <<>>, <<>>) : u \in {"", GhostUid} \cup DOMAIN authUsers}

BodiesOf(route) ==
    IF route \in ProvisionRoutes THEN ProvisionBodies
    ELSE IF route = RemovePasswordChangeRequirement THEN RequirementBodies
    ELSE StatusBodies

\* a body that makes the handler write when the request reaches it
WritingBody(route) ==
    IF route \in ProvisionRoutes THEN Body(Str(NewEmail), "", "pwGiven", <<"J">>, <<"D">>)
    ELSE Body(Undefined, GhostUid, "", <<>>, <<>>)

\* the requests sent to a route: every body with the credentials of the first
\* administrator (or the right key), and every other credential with a body
\* that would write
RequestsOf(guard, route) ==
    CASE guard = "authenticateAdmin" ->
            {<<Headers(<<"Bearer ", AdminUid>>, ""), b>> : b \in BodiesOf(route)}
            \cup {<<Headers(h, ""), WritingBody(route)>> : h \in AuthorizationInputs}
      [] guard = "authenticateApiKey" ->
            {<<Headers(<<>>, GoodKey), b>> : b \in BodiesOf(route)}
            \cup {<<Headers(<<>>, k), WritingBody(route)>> : k \in ApiKeyInputs}
      [] guard = "none" ->
            {<<Headers(<<>>, ""), b>> : b \in BodiesOf(route)}

\* the requests sent to a path the program registers no route for: a body
\* that would write, with the credentials of both guards
UnroutedRequests(route) ==
    {<<Headers(<<"Bearer ", AdminUid>>, GoodKey), WritingBody(route)>>}

\* a client sends a request
Receive(r) ==
    \E route \in Paths :
        \E request \in IF route \in RoutesOf(app)
                       THEN RequestsOf(GuardOf(app, route), route)
                       ELSE UnroutedRequests(route) :
            Arrive(r, route, request[1], request[2])

\* app.use('*', ...): no route matched the request
endpointNotFound(r) ==
    /\ req[r].pc = "notFound"
    /\ Respond(r, req[r], Error(404, "Endpoint not found"))
    /\ UNCHANGED <<app, envKey, authUsers, users, now, flaky, calls, pre, served>>

\* the client has read the response; its slot is free for the next request
Complete(r) ==
    /\ req[r].pc = "done"
    /\ req' = [req EXCEPT ![r] = NoRequest]
    /\ res' = [res EXCEPT ![r] = NoResponse]
    /\ calls' = [calls EXCEPT ![r] = NoCalls]
    /\ pre' = [pre EXCEPT ![r] = [authUsers |-> <<>>, users |-> <<>>]]
    /\ UNCHANGED <<app, envKey, authUsers, users, now, flaky, served>>

\* time passes.  A request reads the clock once, in the run that writes the
\* document, so time that passes while it is in flight is time that passed
\* before it arrived.
Tick ==
    /\ now < MaxTime
    /\ \A r \in Clients : req[r].pc = "idle"
    /\ now' = now + 1
    /\ UNCHANGED <<app, envKey, authUsers, users, flaky, req, res, calls, pre, served>>

InitStores ==
    /\ authUsers = [u \in {AdminUid} |->
                      [email |-> AdminEmail, password |-> "pwInit",
                       claims |-> ForeignClaims, displayName |-> <<>>]]
    /\ users = [u \in {AdminUid} |-> AdminProfile]
    /\ now = 0
    /\ req = [r \in Clients |-> NoRequest]
    /\ res = [r \in Clients |-> NoResponse]
    /\ calls = [r \in Clients |-> NoCalls]
    /\ pre = [r \in Clients |-> [authUsers |-> <<>>, users |-> <<>>]]
    /\ served = 0

\* part_000 serving one request at a time
Init ==
    /\ app = "part_000"
    /\ envKey \in EnvKeys
    /\ flaky = TRUE
    /\ InitStores

Step(r) ==
    \/ Receive(r)
    \/ Complete(r)
    \/ endpointNotFound(r)
    \/ authenticateAdmin(r)
    \/ loadProfile(r)
    \/ authenticateApiKey(r)
    \/ handleProvision(r)
    \/ createUser(r)
    \/ updateUser(r)
    \/ setCustomUserClaims(r)
    \/ writeProfile(r)
    \/ handleStatus(r)
    \/ writeStatus(r)
    \/ handleRequirement(r)
    \/ clearRequirement(r)

Next == Tick \/ Step(1)

Spec == Init /\ [][Next]_vars

\* provisioning requests for one email that has no identity yet, with
\* credentials that pass the guard of the route; tempPassword is given or
\* not on the route that has an update path
ProvisionRequests(route) ==
    {<<Headers(IF GuardOf(app, route) = "authenticateAdmin"
               THEN <<"Bearer ", AdminUid>> ELSE <<>>,
               IF GuardOf(app, route) = "authenticateApiKey" THEN GoodKey ELSE ""),
       Body(Str(NewEmail), "", p, <<>>, <<>>)>> :
          p \in IF route = GrantAdmin THEN TempPasswordInputs ELSE {""}}

ReceiveProvision(r) ==
    \E route \in ProvisionRoutes : \E request \in ProvisionRequests(route) :
        Arrive(r, route, request[1], request[2])

\* part_000 serving several requests at once: the runs of their tasks
\* interleave at every await.  The platform calls fail here only for what
\* the requests do to one another (createUser for an email taken meanwhile).
InitConc ==
    /\ app = "part_000"
    /\ envKey = GoodKey
    /\ flaky = FALSE
    /\ InitStores

NextConc ==
    \E r \in Clients :
        \/ ReceiveProvision(r)
        \/ Complete(r)
        \/ authenticateAdmin(r)
        \/ loadProfile(r)
        \/ authenticateApiKey(r)
        \/ handleProvision(r)
        \/ createUser(r)
        \/ updateUser(r)
        \/ setCustomUserClaims(r)
        \/ writeProfile(r)

SpecConc == InitConc /\ [][NextConc]_vars

\* server.js serving one request at a time
InitServer ==
    /\ app = "server.js"
    /\ envKey = ""
    /\ flaky = TRUE
    /\ InitStores

NextServer ==
    \/ Tick
    \/ Receive(1)
    \/ Complete(1)
    \/ endpointNotFound(1)
    \/ handleProvision(1)
    \/ createUser(1)
    \/ updateUser(1)
    \/ setCustomUserClaims(1)
    \/ writeProfile(1)
    \/ handleRequirement(1)
    \/ clearRequirement(1)

SpecServer == InitServer /\ [][NextServer]_vars

---------------------------------------------------------------------------
(* POST /api/send-notification *)

\* what a profile's fcmToken field can hold that is not a device token:
\* the field is absent (undefined in the handler) or holds null
UndefinedToken == "<undefined>"
NullToken == "<null>"
DeviceTokens == {"tokA", "tokB"}

\* doc.data().fcmToken
FcmTokenOf(doc) == IF "fcmToken" \in DOMAIN doc THEN doc.fcmToken ELSE UndefinedToken

\* the order in which a query snapshot lists the documents (by document id)
DocOrder == <<AdminUid, NewUid, GhostUid>>

\* targetType = 'all' when the body has none ("" stands for an omitted field)
TargetTypeOf(targetType) == IF targetType = "" THEN "all" ELSE targetType

UsesTargetUsers_OnlyForAll(targetUsers, targetType) ==
    Len(targetUsers) > 0 /\ TargetTypeOf(targetType) = "all"

\* if (targetUsers.length > 0)
UsesTargetUsers(targetUsers, targetType) == Len(targetUsers) > 0

\* userDoc.exists ? userDoc.data().fcmToken : null, for each listed id
UserTokens(docs, targetUsers) ==
    [i \in 1..Len(targetUsers) |->
        IF targetUsers[i] \in DOMAIN docs THEN FcmTokenOf(docs[targetUsers[i]])
        ELSE NullToken]

\* token => token !== null
NotNull(token) == token # NullToken

\* token => token !== null && token !== undefined
NotNullNorUndefined(token) == token # NullToken /\ token # UndefinedToken

\* the documents a query returns: all of them, or those whose userType
\* equals the filter ("" stands for the unfiltered collection)
Matches(docs, filter, id) ==
    /\ id \in DOMAIN docs
    /\ \/ filter = ""
       \/ "userType" \in DOMAIN docs[id] /\ docs[id].userType = filter

RECURSIVE SnapshotTokens(_, _, _)
\* snapshot.docs.map(doc => doc.data().fcmToken)
SnapshotTokens(docs, filter, ids) ==
    IF ids = <<>> THEN <<>>
    ELSE (IF Matches(docs, filter, Head(ids))
          THEN <<FcmTokenOf(docs[Head(ids)])>> ELSE <<>>)
         \o SnapshotTokens(docs, filter, Tail(ids))

\* the tokens the handler collects once its reads have resolved
CollectedTokens(q) ==
    IF UsesTargetUsers(q.targetUsers, q.targetType)
    THEN SelectSeq(UserTokens(users, q.targetUsers), NotNull)
    ELSE SelectSeq(SnapshotTokens(users, q.filter, DocOrder), NotNullNorUndefined)

NoRecipients ==
    [NoResponse EXCEPT !.status = 200,
        !.error = "No users have enabled notifications for the specified criteria"]

InternalError == Error(500, "Internal server error")

\* the run of the handler up to its first await: validation, then the reads
\* of the listed profiles or the query are issued
handleNotification(r) ==
    /\ req[r].pc = "handler"
    /\ req[r].route = SendNotification
    /\ LET q == req[r] IN
        IF q.title = "" \/ q.body = ""
        THEN /\ Respond(r, q, Error(400, "Title and body are required"))
             /\ calls' = calls
        ELSE IF UsesTargetUsers(q.targetUsers, q.targetType)
        THEN /\ Goto(r, [q EXCEPT !.readIds = q.targetUsers], "reading")
             /\ calls' = [calls EXCEPT ![r].get = @ + Len(q.targetUsers)]
        ELSE IF TargetTypeOf(q.targetType) # "all"
        THEN /\ Goto(r, [q EXCEPT !.filter = TargetTypeOf(q.targetType)], "reading")
             /\ calls' = [calls EXCEPT ![r].where = @ + 1, ![r].query = @ + 1]
        ELSE /\ Goto(r, q, "reading")
             /\ calls' = [calls EXCEPT ![r].query = @ + 1]
    /\ UNCHANGED <<app, envKey, authUsers, users, now, flaky, pre, served>>

\* the reads resolve: the tokens are collected, and either nobody is left to
\* notify or one send per token is issued, all of them before any settles
collectTokens(r) ==
    /\ req[r].pc = "reading"
    /\ \E fault \in FaultChoices :
        LET q == req[r]
            tokens == CollectedTokens(q)
        IN  IF fault
            THEN /\ Respond(r, q, InternalError)
                 /\ calls' = calls
            ELSE IF Len(tokens) = 0
            THEN /\ Respond(r, [q EXCEPT !.tokens = tokens], NoRecipients)
                 /\ calls' = calls
            ELSE /\ Goto(r, [q EXCEPT !.tokens = tokens,
                                      !.results = [i \in 1..Len(tokens) |-> "pending"]],
                         "settling")
                 /\ calls' = [calls EXCEPT ![r].send = @ + Len(tokens)]
    /\ UNCHANGED <<app, envKey, authUsers, users, now, flaky, pre, served>>

\* what admin.messaging().send can come to for a token: the gateway delivers
\* to a device token or rejects it, and has nothing to deliver to otherwise
SendOutcomes(token) ==
    IF token \in DeviceTokens THEN {"fulfilled", "rejected"} ELSE {"rejected"}

\* one of the sends settles
settleSend(r) ==
    /\ req[r].pc = "settling"
    /\ \E i \in 1..Len(req[r].results) :
        /\ req[r].results[i] = "pending"
        /\ \E outcome \in SendOutcomes(req[r].tokens[i]) :
            req' = [req EXCEPT ![r].results[i] = outcome]
    /\ UNCHANGED <<app, envKey, authUsers, users, now, flaky, res, calls, pre, served>>

\* await Promise.allSettled(...)
AllSettled(results) == \A i \in 1..Len(results) : results[i] # "pending"

NumberOf(results, status) == Cardinality({i \in 1..Len(results) : results[i] = status})

\* tokens[index].substring(0, 20) in the log line of a rejected send
LogThrows(tokens, results) ==
    \E i \in 1..Len(results) : results[i] = "rejected" /\ tokens[i] \notin DeviceTokens

\* the run after Promise.allSettled: counts, log lines, response
respondStats(r) ==
    /\ req[r].pc = "settling"
    /\ AllSettled(req[r].results)
    /\ LET q == req[r] IN
        IF LogThrows(q.tokens, q.results)
        THEN Respond(r, q, InternalError)
        ELSE Respond(r, q, [NoResponse EXCEPT !.status = 200,
                               !.stats = <<Len(q.tokens),
                                           NumberOf(q.results, "fulfilled"),
                                           NumberOf(q.results, "rejected")>>])
    /\ UNCHANGED <<app, envKey, authUsers, users, now, flaky, calls, pre, served>>

NotificationTexts == {<<"T", "B">>, <<"", "B">>, <<"T", "">>}
TargetTypeInputs == {"", "all", "admin", "user"}
TargetUsersInputs ==
    {<<>>, <<AdminUid>>, <<NewUid>>, <<GhostUid>>, <<AdminUid, NewUid>>, <<GhostUid, NewUid>>}

\* a request for /api/send-notification arrives; the route has no guard
ReceiveNotification(r) ==
    /\ req[r].pc = "idle"
    /\ served < MaxRequests
    /\ served' = served + 1
    /\ \E text \in NotificationTexts, targetType \in TargetTypeInputs,
          targetUsers \in TargetUsersInputs :
        req' = [req EXCEPT ![r] =
                  [NoRequest EXCEPT !.pc = FirstStep(app, SendNotification),
                                    !.route = SendNotification,
                                    !.title = text[1], !.body = text[2],
                                    !.targetType = targetType,
                                    !.targetUsers = targetUsers]]
    /\ res' = [res EXCEPT ![r] = NoResponse]
    /\ calls' = [calls EXCEPT ![r] = NoCalls]
    /\ pre' = [pre EXCEPT ![r] = [authUsers |-> authUsers, users |-> users]]
    /\ UNCHANGED <<app, envKey, authUsers, users, now, flaky>>

\* what the client application has stored in a profile's fcmToken field
FcmTokenStates == {UndefinedToken, NullToken} \cup DeviceTokens

WithFcmToken(doc, token) ==
    IF token = UndefinedToken THEN doc
    ELSE [f \in DOMAIN doc \cup {"fcmToken"} |-> IF f = "fcmToken" THEN token ELSE doc[f]]

UserProfile ==
    [f \in {"uid", "email", "userType"} |->
        CASE f = "uid" -> NewUid
          [] f = "email" -> NewEmail
          [] f = "userType" -> "user"]

\* the service with an administrator and a user, each with or without a
\* registered device
InitNotify ==
    /\ app \in {"part_000", "server.js"}
    /\ envKey = GoodKey
    /\ flaky = TRUE
    /\ authUsers = [u \in Uids |->
                      [email |-> IF u = AdminUid THEN AdminEmail ELSE NewEmail,
                       password |-> "pwInit", claims |-> {}, displayName |-> <<>>]]
    /\ \E a \in FcmTokenStates, b \in FcmTokenStates :
        users = [u \in Uids |-> IF u = AdminUid THEN WithFcmToken(AdminProfile, a)
                                ELSE WithFcmToken(UserProfile, b)]
    /\ now = 0
    /\ req = [r \in Clients |-> NoRequest]
    /\ res = [r \in Clients |-> NoResponse]
    /\ calls = [r \in Clients |-> NoCalls]
    /\ pre = [r \in Clients |-> [authUsers |-> <<>>, users |-> <<>>]]
    /\ served = 0

NextNotify ==
    \/ ReceiveNotification(1)
    \/ Complete(1)
    \/ handleNotification(1)
    \/ collectTokens(1)
    \/ settleSend(1)
    \/ respondStats(1)

SpecNotify == InitNotify /\ [][NextNotify]_vars

---------------------------------------------------------------------------
(* What the checks below read off a request *)

HandlerSteps == {"handler", "createUser", "updateUser", "setCustomUserClaims", "set"}

\* calls the handler (not the middleware) has made
HandlerCalls(r) ==
    calls[r].getUserByEmail + calls[r].createUser + calls[r].updateUser
    + calls[r].setCustomUserClaims + calls[r].set

\* writes the request has asked of the two stores
WriteCalls(r) ==
    calls[r].createUser + calls[r].updateUser + calls[r].setCustomUserClaims + calls[r].set

\* the email of the body had an identity when the request arrived
KnownBefore(r) ==
    /\ req[r].email.t = "string"
    /\ \E u \in DOMAIN pre[r].authUsers : pre[r].authUsers[u].email = req[r].email.s

UidBefore(r) ==
    CHOOSE u \in DOMAIN pre[r].authUsers : pre[r].authUsers[u].email = req[r].email.s

Succeeded(r, routes) ==
    req[r].pc = "done" /\ req[r].route \in routes /\ res[r].status = 200

---------------------------------------------------------------------------
(* Provisioning *)

\* C1: a successful provisioning call for a well-formed email that had no
\* identity creates exactly one identity (with that email) and exactly one
\* profile document, keyed by the new uid, holding createdAt and a non-empty
\* tempPassword.
C1_ProvisionCreatesOnePair ==
    \A r \in Clients :
        (Succeeded(r, ProvisionRoutes) /\ ~KnownBefore(r)) =>
            LET uid == res[r].uid IN
            /\ EmailRegexTest(req[r].email.s)
            /\ DOMAIN authUsers \ DOMAIN pre[r].authUsers = {uid}
            /\ authUsers[uid].email = req[r].email.s
            /\ \A u \in DOMAIN pre[r].authUsers : authUsers[u] = pre[r].authUsers[u]
            /\ DOMAIN users \ DOMAIN pre[r].users = {uid}
            /\ \A d \in DOMAIN pre[r].users : users[d] = pre[r].users[d]
            /\ {"createdAt", "tempPassword"} \subseteq DOMAIN users[uid]
            /\ users[uid]["tempPassword"] # ""
            /\ calls[r].createUser = 1 /\ calls[r].set = 1

C1_Witness ==
    \E r \in Clients :
        /\ Succeeded(r, {GhlCreateTrialUser}) /\ ~KnownBefore(r)
        /\ req[r].tempPassword = ""
        /\ AdminUid \in DOMAIN pre[r].users

\* C2: on a create-new-user route, a request whose email already had an
\* identity writes nothing (no createUser, updateUser, setCustomUserClaims or
\* document set; both stores stay as they were) and, once its lookup has
\* answered, ends with 409 carrying the uid of the existing identity.
C2_ExistingEmailConflicts ==
    \A r \in Clients :
        (req[r].pc # "idle" /\ req[r].route \in CreateNewRoutes /\ KnownBefore(r)) =>
            /\ WriteCalls(r) = 0
            /\ authUsers = pre[r].authUsers
            /\ users = pre[r].users
            /\ (req[r].pc = "done" /\ calls[r].getUserByEmail = 1 /\ ~req[r].faulted) =>
                   (res[r].status = 409 /\ res[r].uid = UidBefore(r))
            /\ req[r].pc \notin HandlerSteps \ {"handler"}

C2_Witness ==
    \E r \in Clients :
        /\ req[r].pc = "done" /\ req[r].route = CreateUser /\ KnownBefore(r)
        /\ res[r].status = 409 /\ res[r].uid = NewUid
        /\ req[r].tempPassword = "pwGiven"

\* C3: a successful grant-admin call for an email that already had an identity
\* makes no createUser call and exactly one document set, which is a merge: the
\* set of identities is unchanged, the other documents are unchanged, and the
\* fields of the target document that the call does not write (createdAt among
\* them) keep their values.
C3_Written ==
    {"uid", "email", "userType", "accountType", "creationEndpoint", "createdBy",
     "accountStatus", "updatedAt", "firstName", "lastName", "displayName",
     "tempPassword", "passwordGeneratedAt"}

C3_GrantAdminExistingMerges ==
    \A r \in Clients :
        (Succeeded(r, {GrantAdmin}) /\ KnownBefore(r)) =>
            LET uid == UidBefore(r)
                old == IF uid \in DOMAIN pre[r].users THEN pre[r].users[uid] ELSE EmptyDoc
            IN
            /\ calls[r].createUser = 0 /\ calls[r].set = 1
            /\ DOMAIN authUsers = DOMAIN pre[r].authUsers
            /\ res[r].uid = uid
            /\ DOMAIN users = DOMAIN pre[r].users \cup {uid}
            /\ \A d \in DOMAIN pre[r].users \ {uid} : users[d] = pre[r].users[d]
            /\ \A f \in DOMAIN old \ C3_Written :
                   f \in DOMAIN users[uid] /\ users[uid][f] = old[f]
            /\ users[uid]["userType"] = "admin"

C3_Witness ==
    \E r \in Clients :
        /\ Succeeded(r, {GrantAdmin}) /\ KnownBefore(r)
        /\ UidBefore(r) \in DOMAIN pre[r].users
        /\ "createdAt" \in DOMAIN pre[r].users[UidBefore(r)]
        /\ pre[r].users[UidBefore(r)]["userType"] = "user"

\* the identities that hold the email
IdentitiesOf(email) == {u \in DOMAIN authUsers : authUsers[u].email = email}

\* the createUser call of the request has been rejected
CreateRejected(r) ==
    calls[r].createUser = 1 /\ req[r].pc # "createUser" /\ req[r].generated = ""

\* C4: while provisioning requests for the same new email interleave, no
\* email ever has more than one identity, and a request whose createUser call
\* was rejected ends with an error without a password update, a claims write
\* or a profile write.
C4_OneIdentityPerEmail ==
    /\ \A e \in ValidEmails : Cardinality(IdentitiesOf(e)) <= 1
    /\ \A r \in Clients :
          CreateRejected(r) =>
              /\ req[r].pc = "done" /\ res[r].status = 500
              /\ calls[r].updateUser = 0
              /\ calls[r].setCustomUserClaims = 0
              /\ calls[r].set = 0

\* two requests both found the email unknown; one created the identity, the
\* create of the other was rejected because the email had an identity by then
C4_Witness ==
    \E a \in Clients : \E b \in Clients \ {a} :
        /\ ~KnownBefore(a) /\ ~KnownBefore(b)
        /\ req[a].generated # "" /\ req[a].route = GrantAdmin
        /\ CreateRejected(b) /\ ~req[b].faulted /\ req[b].route = GhlCreateUser
        /\ Cardinality(IdentitiesOf(NewEmail)) = 1

---------------------------------------------------------------------------
(* Access control *)

AdminGuarded == {GrantAdmin, CreateUser, MakeInactive, MakeActive}
KeyGuarded == {GhlCreateUser, GhlCreateTrialUser, GhlMakeInactive, GhlMakeActive}

\* the handler of the route has been invoked: the request is in one of its
\* runs, or has ended with an answer only the handler gives
HandlerInvoked(r) ==
    \/ req[r].pc \in HandlerSteps
    \/ HandlerCalls(r) > 0
    \/ /\ req[r].pc = "done" /\ req[r].route \in RoutesOf(app)
       /\ res[r].status \in {200, 400, 404, 409}

\* the middleware has made no call and the handler none either
NoCallAtAll(r) == calls[r] = NoCalls

\* the profile of uid, as it was when the request arrived, is an admin profile
AdminBefore(r, uid) ==
    /\ uid \in DOMAIN pre[r].users
    /\ "userType" \in DOMAIN pre[r].users[uid]
    /\ pre[r].users[uid]["userType"] = "admin"

\* the token of an Authorization header of the form "Bearer <token>"
BearerOf(r) ==
    IF Len(req[r].authorization) = 2 /\ req[r].authorization[1] = "Bearer "
    THEN req[r].authorization[2] ELSE ""

\* C5: on the admin routes, a request for which a write was asked of the
\* identity provider or of the document store carried a token the provider
\* verifies, and the profile of the token's uid was an admin profile.
C5_AdminRoutesGuarded ==
    \A r \in Clients :
        (req[r].pc # "idle" /\ req[r].route \in AdminGuarded /\ WriteCalls(r) > 0) =>
            /\ BearerOf(r) \in DOMAIN pre[r].authUsers
            /\ AdminBefore(r, BearerOf(r))

\* C6: the outcomes of the bearer-token + role guard.  No or a non-Bearer
\* Authorization header: 401 and no call at all.  A token the provider does
\* not verify: 401 and no document read.  A verified token whose uid has no
\* profile, or a profile whose userType is not "admin": 403.  In these cases
\* the handler is never invoked, and whenever the handler is invoked the token
\* was verified and the profile of its uid is an admin profile.
C6_BearerGuardOutcomes ==
    \A r \in Clients :
        (req[r].pc # "idle" /\ GuardOf(app, req[r].route) = "authenticateAdmin"
         /\ req[r].route \in RoutesOf(app)) =>
            LET token == BearerOf(r)
                verifiable == token \in DOMAIN pre[r].authUsers
                ended == req[r].pc = "done"
            IN
            /\ token = "" =>
                  /\ ~HandlerInvoked(r) /\ NoCallAtAll(r)
                  /\ ended => res[r].status = 401
            /\ (token # "" /\ ~verifiable) =>
                  /\ ~HandlerInvoked(r) /\ calls[r].get = 0
                  /\ ended => (res[r].status = 401 /\ calls[r].verifyIdToken = 1)
            /\ (verifiable /\ ~AdminBefore(r, token)) =>
                  /\ ~HandlerInvoked(r)
                  /\ (ended /\ ~req[r].faulted) =>
                        (res[r].status = 403 /\ calls[r].verifyIdToken = 1
                         /\ calls[r].get = 1)
            /\ HandlerInvoked(r) =>
                  /\ verifiable /\ AdminBefore(r, token)
                  /\ req[r].user = token
                  /\ calls[r].verifyIdToken = 1 /\ calls[r].get = 1

\* a verified token of a caller whose profile says "user" is answered 403
C6_Witness ==
    \E r \in Clients :
        /\ req[r].pc = "done" /\ req[r].route = GrantAdmin
        /\ res[r].status = 403
        /\ BearerOf(r) = NewUid
        /\ NewUid \in DOMAIN pre[r].users
        /\ pre[r].users[NewUid]["userType"] = "user"

\* C7: the static-key guard.  No key header: 401.  A key header while
\* GHL_API_KEY is unconfigured: 500, whatever the key.  A key that differs
\* from the configured one: 403.  In these cases no call is made and the handler
\* is not invoked; whenever the handler is invoked, the key sent is the
\* configured key.
C7_StaticKeyGuardOutcomes ==
    \A r \in Clients :
        (req[r].pc # "idle" /\ GuardOf(app, req[r].route) = "authenticateApiKey"
         /\ req[r].route \in RoutesOf(app)) =>
            LET key == req[r].apiKey
                ended == req[r].pc = "done"
                rejected(code) == /\ ~HandlerInvoked(r) /\ NoCallAtAll(r)
                                  /\ authUsers = pre[r].authUsers /\ users = pre[r].users
                                  /\ ended => res[r].status = code
            IN
            /\ key = "" => rejected(401)
            /\ (key # "" /\ envKey = "") => rejected(500)
            /\ (key # "" /\ envKey # "" /\ key # envKey) => rejected(403)
            /\ HandlerInvoked(r) => (key # "" /\ key = envKey)

\* the right key against a server without GHL_API_KEY is answered 500
C7_Witness ==
    \E r \in Clients :
        /\ req[r].pc = "done" /\ req[r].route = GhlCreateUser
        /\ req[r].apiKey = GoodKey /\ envKey = ""
        /\ res[r].status = 500 /\ res[r].error = "Server configuration error"

---------------------------------------------------------------------------
(* Lifecycle transitions *)

\* the status each lifecycle route stands for
StatusNamed(route) ==
    IF route \in {MakeInactive, GhlMakeInactive} THEN "Inactive" ELSE "Active"

\* a document without its updatedAt field
WithoutUpdatedAt(doc) == [f \in DOMAIN doc \ {"updatedAt"} |-> doc[f]]

\* the profile the successful lifecycle request r wrote, before and after
TargetBefore(r) ==
    IF res[r].uid \in DOMAIN pre[r].users THEN pre[r].users[res[r].uid] ELSE EmptyDoc

\* C8: setStatus is idempotent.  A successful call on a profile whose
\* accountStatus already is the status of the route (as after a first such
\* call) leaves that profile as it was but for updatedAt, and leaves every
\* other document and every identity as it was.
C8_SetStatusIdempotent ==
    \A r \in Clients :
        (/\ Succeeded(r, StatusRoutes)
         /\ "accountStatus" \in DOMAIN TargetBefore(r)
         /\ TargetBefore(r)["accountStatus"] = StatusNamed(req[r].route)) =>
            /\ WithoutUpdatedAt(users[res[r].uid]) = WithoutUpdatedAt(TargetBefore(r))
            /\ DOMAIN users = DOMAIN pre[r].users
            /\ \A d \in DOMAIN users \ {res[r].uid} : users[d] = pre[r].users[d]
            /\ authUsers = pre[r].authUsers

\* the second of two make-inactive calls on the same uid, at a later time
C8_Witness ==
    \E r \in Clients :
        /\ Succeeded(r, InactiveRoutes)
        /\ "accountStatus" \in DOMAIN TargetBefore(r)
        /\ TargetBefore(r)["accountStatus"] = "Inactive"
        /\ users[res[r].uid]["updatedAt"] # TargetBefore(r)["updatedAt"]

\* C9: a successful setStatus call changes accountStatus and updatedAt of the
\* target document and nothing else: its other fields, the other documents
\* and the identities stay as they were, and a target that did not exist is
\* created with these two fields only.
C9_SetStatusFrame ==
    \A r \in Clients :
        Succeeded(r, StatusRoutes) =>
            LET uid == res[r].uid
                old == TargetBefore(r)
            IN
            /\ authUsers = pre[r].authUsers
            /\ DOMAIN users = DOMAIN pre[r].users \cup {uid}
            /\ \A d \in DOMAIN pre[r].users \ {uid} : users[d] = pre[r].users[d]
            /\ DOMAIN users[uid] = DOMAIN old \cup {"accountStatus", "updatedAt"}
            /\ \A f \in DOMAIN old \ {"accountStatus", "updatedAt"} : users[uid][f] = old[f]
            /\ users[uid]["accountStatus"] = StatusNamed(req[r].route)
            /\ uid \notin DOMAIN pre[r].users =>
                   DOMAIN users[uid] = {"accountStatus", "updatedAt"}

\* a lifecycle call that named a uid without a profile document
C9_Witness ==
    \E r \in Clients :
        /\ Succeeded(r, {GhlMakeInactive})
        /\ res[r].uid = GhostUid
        /\ GhostUid \notin DOMAIN pre[r].users

\* C10: a setStatus request with neither uid nor email is answered 400 by the
\* handler, which makes no call to the identity provider or the document
\* store for it; the stores stay as they were.
C10_NoTargetIsInvalidInput ==
    \A r \in Clients :
        (/\ req[r].pc # "idle" /\ req[r].route \in StatusRoutes
         /\ req[r].uid = "" /\ ~Truthy(req[r].email)) =>
            /\ HandlerCalls(r) = 0
            /\ req[r].pc \notin HandlerSteps \ {"handler"}
            /\ authUsers = pre[r].authUsers /\ users = pre[r].users
            /\ (req[r].pc = "done" /\ HandlerInvoked(r)) => res[r].status = 400

\* an empty email and no uid, past the guard
C10_Witness ==
    \E r \in Clients :
        /\ req[r].pc = "done" /\ req[r].route = MakeInactive
        /\ req[r].uid = "" /\ req[r].email = Str(<<>>)
        /\ res[r].status = 400 /\ req[r].user = AdminUid

\* a lifecycle request that names its target by email only
ByEmailOnly(r) ==
    /\ req[r].pc # "idle" /\ req[r].route \in StatusRoutes
    /\ req[r].uid = "" /\ Truthy(req[r].email)

C12_ResultIsStatusWritten ==
    \A r \in Clients :
        Succeeded(r, StatusRoutes) =>
            /\ res[r].uid = req[r].targetUid
            /\ res[r].uid \in DOMAIN users
            /\ res[r].accountStatus = users[res[r].uid]["accountStatus"]
            /\ res[r].accountStatus \in {"Active", "Inactive"}

\* a lifecycle request that names a uid and carries the credentials its
\* guard asks for
Entitled(r) ==
    /\ req[r].uid # ""
    /\ \/ /\ req[r].route \in {MakeInactive, MakeActive}
          /\ BearerOf(r) \in DOMAIN pre[r].authUsers
          /\ AdminBefore(r, BearerOf(r))
       \/ /\ req[r].route \in {GhlMakeInactive, GhlMakeActive}
          /\ envKey # "" /\ req[r].apiKey = envKey

\* C13: each of the four lifecycle routes exists and sets the status of its
\* route: a call by an entitled caller that names a uid succeeds, when the
\* platform does not fail, and leaves the target profile with "Inactive" on
\* /api/make-inactive and /api/ghl/make-inactive, with "Active" on
\* /api/make-active and /api/ghl/make-active.
C13_RouteSetsItsStatus ==
    \A r \in Clients :
        (/\ req[r].pc = "done" /\ req[r].route \in StatusRoutes
         /\ Entitled(r) /\ ~req[r].faulted) =>
            /\ res[r].status = 200
            /\ req[r].uid \in DOMAIN users
            /\ users[req[r].uid]["accountStatus"] = StatusNamed(req[r].route)

---------------------------------------------------------------------------
(* Profile invariants *)

\* the createdAt of a document that may not exist or may have none
CreatedAtOf(docs, d) ==
    IF d \in DOMAIN docs /\ "createdAt" \in DOMAIN docs[d]
    THEN <<docs[d]["createdAt"]>> ELSE <<>>

\* a successful provisioning call for an email that had an identity wrote no
\* createdAt
KeepsCreatedAtOfExisting ==
    \A r \in Clients :
        (Succeeded(r, ProvisionRoutes) /\ KnownBefore(r)) =>
            CreatedAtOf(users, UidBefore(r)) = CreatedAtOf(pre[r].users, UidBefore(r))

\* no step changes or removes a createdAt that is set
CreatedAtStays ==
    \A d \in DOMAIN users :
        "createdAt" \in DOMAIN users[d] =>
            /\ d \in DOMAIN users'
            /\ "createdAt" \in DOMAIN users'[d]
            /\ users'[d]["createdAt"] = users[d]["createdAt"]

\* C14: createdAt is write-once.  A provisioning call writes createdAt only
\* when it created the identity itself, and through every sequence of
\* provisioning and setStatus calls a createdAt that is set keeps its value.
C14_CreatedAtWriteOnce == [](KeepsCreatedAtOfExisting) /\ [][CreatedAtStays]_vars

\* grant-admin, at a later time, on a profile whose createdAt was set earlier
C14_Witness ==
    \E r \in Clients :
        /\ Succeeded(r, {GrantAdmin}) /\ KnownBefore(r)
        /\ CreatedAtOf(pre[r].users, UidBefore(r)) # <<>>
        /\ users[UidBefore(r)]["updatedAt"] # users[UidBefore(r)]["createdAt"]

\* C15: every profile document is keyed by the uid of an existing identity,
\* and its uid field, when it has one, is that uid.
C15_ProfileHasIdentity ==
    \A d \in DOMAIN users :
        /\ d \in DOMAIN authUsers
        /\ "uid" \in DOMAIN users[d] => users[d]["uid"] = d

---------------------------------------------------------------------------
(* Provenance *)

\* the tuple of userType, accountType, creationEndpoint fixed for each route
TupleOf(route) ==
    CASE route = GrantAdmin -> <<"admin", "Admin-Created", "grant_admin">>
      [] route = CreateUser -> <<"user", "Admin-Created", "create_user">>
      [] route = GhlCreateUser -> <<"user", "Premium", "ghl_create_user">>
      [] route = GhlCreateTrialUser -> <<"user", "Trial", "ghl_create_trial_user">>

\* the resolved name of the admin that sent request r, as its profile and
\* token were when the request arrived
CallerName(r) ==
    ProfileName(pre[r].users[BearerOf(r)], pre[r].authUsers[BearerOf(r)].displayName,
                pre[r].authUsers[BearerOf(r)].email)

\* C16: a successful provisioning call leaves the tuple of its route in the
\* profile (userType, accountType, creationEndpoint), createdBy (the resolved
\* name of the calling admin on grant-admin and create-user, "GHL" on the GHL
\* routes), the uid, the email, updatedAt and accountStatus "Active".
C16_RouteTupleWritten ==
    \A r \in Clients :
        Succeeded(r, ProvisionRoutes) =>
            LET doc == users[res[r].uid]
                has(f) == f \in DOMAIN doc
            IN
            /\ has("userType") /\ has("accountType") /\ has("creationEndpoint")
            /\ <<doc["userType"], doc["accountType"], doc["creationEndpoint"]>>
                   = TupleOf(req[r].route)
            /\ has("createdBy")
            /\ req[r].route \in {GhlCreateUser, GhlCreateTrialUser} =>
                   doc["createdBy"] = <<"GHL">>
            /\ req[r].route \in {GrantAdmin, CreateUser} =>
                   /\ BearerOf(r) \in DOMAIN pre[r].users
                   /\ doc["createdBy"] = CallerName(r)
            /\ has("uid") /\ doc["uid"] = res[r].uid
            /\ has("email") /\ doc["email"] = req[r].email.s
            /\ has("updatedAt") /\ doc["updatedAt"] = now
            /\ has("accountStatus") /\ doc["accountStatus"] = "Active"

---------------------------------------------------------------------------
(* Input validation *)

\* the shape local@domain.tld: one '@' with text before it, and after it text
\* with a dot inside; no whitespace
LocalAtDomainTld(s) ==
    LET ats == {i \in 1..Len(s) : s[i] = "@"} IN
    /\ Cardinality(ats) = 1
    /\ \A i \in 1..Len(s) : s[i] # " "
    /\ \E at \in ats :
          /\ at > 1
          /\ \E dot \in (at + 2)..(Len(s) - 1) : s[dot] = "."

\* an email that is missing, not a string, empty or not of the shape
BadEmail(email) ==
    \/ email.t # "string"
    \/ email.s = <<>>
    \/ ~LocalAtDomainTld(email.s)

\* C17: on every provisioning route, a request whose email is missing, not a
\* string, empty or not of the shape local@domain.tld is answered 400 by the
\* handler, which makes no call to the identity provider or to the document
\* store for it.
C17_BadEmailIsInvalidInput ==
    \A r \in Clients :
        (/\ req[r].pc # "idle" /\ req[r].route \in ProvisionRoutes \cap RoutesOf(app)
         /\ BadEmail(req[r].email)) =>
            /\ HandlerCalls(r) = 0
            /\ req[r].pc \notin HandlerSteps \ {"handler"}
            /\ authUsers = pre[r].authUsers /\ users = pre[r].users
            /\ (req[r].pc = "done" /\ HandlerInvoked(r)) => res[r].status = 400

---------------------------------------------------------------------------
(* Notifications *)

Notifying(r) == req[r].route = SendNotification

\* the handler is past its validation
Resolving(r) ==
    /\ Notifying(r)
    /\ req[r].pc \in {"reading", "settling", "done"}
    /\ res[r].status # 400

\* C18: with a non-empty targetUsers the handler reads exactly the listed
\* profiles, issues no query and no userType filter, and collects the tokens
\* of the listed profiles whatever targetType says; with an empty targetUsers
\* it issues one query and no profile read, filtered by targetType unless
\* targetType is "all" (or omitted).
C18_TargetUsersTakePrecedence ==
    \A r \in Clients :
        Resolving(r) =>
            IF Len(req[r].targetUsers) > 0
            THEN /\ req[r].readIds = req[r].targetUsers
                 /\ calls[r].get = Len(req[r].targetUsers)
                 /\ calls[r].query = 0
                 /\ calls[r].where = 0
                 /\ req[r].filter = ""
                 /\ req[r].pc = "settling" \/ res[r].status = 200 =>
                        req[r].tokens = SelectSeq(UserTokens(users, req[r].targetUsers), NotNull)
            ELSE /\ req[r].readIds = <<>>
                 /\ calls[r].get = 0
                 /\ calls[r].query = 1
                 /\ IF req[r].targetType \in {"", "all"}
                    THEN calls[r].where = 0 /\ req[r].filter = ""
                    ELSE calls[r].where = 1 /\ req[r].filter = req[r].targetType

\* a request for administrators that lists a user: the user's token is
\* collected and its send is pending
C18_Witness ==
    \E r \in Clients :
        /\ Notifying(r)
        /\ req[r].pc = "settling"
        /\ req[r].targetType = "admin"
        /\ req[r].targetUsers = <<NewUid>>
        /\ users[NewUid].userType = "user"
        /\ req[r].tokens = <<"tokB">>
        /\ calls[r].send = 1

\* the profiles the request addresses hold no device token
NoDeviceToken(r) ==
    IF Len(req[r].targetUsers) > 0
    THEN \A i \in 1..Len(req[r].targetUsers) :
            \/ req[r].targetUsers[i] \notin DOMAIN users
            \/ FcmTokenOf(users[req[r].targetUsers[i]]) \notin DeviceTokens
    ELSE \A id \in DOMAIN users :
            \/ ~(\/ req[r].targetType \in {"", "all"}
                 \/ "userType" \in DOMAIN users[id]
                        /\ users[id].userType = req[r].targetType)
            \/ FcmTokenOf(users[id]) \notin DeviceTokens

\* C19: when the addressed profiles yield no device token, no send is issued,
\* and the response, unless a read failed, is the 200 response with the
\* error "No users have enabled notifications for the specified criteria".
C19_NoTokenNoSend ==
    \A r \in Clients :
        Resolving(r) /\ NoDeviceToken(r) =>
            /\ calls[r].send = 0
            /\ req[r].pc # "settling"
            /\ req[r].pc = "done" /\ res[r].status # 500 => res[r] = NoRecipients

\* C20: one send is issued per collected token before any of them settles;
\* the response comes only when every send has settled, it is never an error
\* response, and its stats are total = number of tokens = successful + failed.
C20_OneSendPerTokenAllSettled ==
    \A r \in Clients :
        Notifying(r) /\ Len(req[r].tokens) > 0 =>
            /\ calls[r].send = Len(req[r].tokens)
            /\ Len(req[r].results) = Len(req[r].tokens)
            /\ req[r].pc = "done" =>
                /\ AllSettled(req[r].results)
                /\ res[r].status = 200
                /\ res[r].error = ""
                /\ res[r].stats = <<Len(req[r].tokens),
                                    NumberOf(req[r].results, "fulfilled"),
                                    NumberOf(req[r].results, "rejected")>>
                /\ res[r].stats[1] = res[r].stats[2] + res[r].stats[3]

\* C21: a profile without a device token contributes nothing to the collected
\* tokens, in the targetUsers branch as in the query branch: every collected
\* token is a device token, so no send carries an absent token, and when the
\* addressed profiles hold no device token the response, unless a read
\* failed, is the no-recipients response.
C21_TokenlessProfilesDropped ==
    \A r \in Clients :
        Resolving(r) =>
            /\ \A i \in 1..Len(req[r].tokens) : req[r].tokens[i] \in DeviceTokens
            /\ NoDeviceToken(r) => req[r].results = <<>>
            /\ NoDeviceToken(r) /\ req[r].pc = "done" /\ res[r].status # 500 =>
                    res[r] = NoRecipients

---------------------------------------------------------------------------
(* Lifetime of identities and profiles *)

NothingDeleted ==
    /\ DOMAIN authUsers \subseteq DOMAIN authUsers'
    /\ DOMAIN users \subseteq DOMAIN users'

\* C22: no step of any request removes an identity or a profile document:
\* the set of identities and the set of profile documents only grow.
C22_NeverDeleted == [][NothingDeleted]_vars

\* both stores have grown, and a later request has been answered
C22_Witness ==
    /\ Cardinality(DOMAIN authUsers) = 2
    /\ Cardinality(DOMAIN users) = 2
    /\ served = 2
    /\ \E r \in Clients : req[r].pc = "done"

---------------------------------------------------------------------------
(* Claims and credentials *)

\* C23: after a successful provisioning call the custom claims of the target
\* identity are exactly {mustChangePassword: true}, for a new identity as for
\* one that existed, whatever claims it held before.
C23_ClaimsExactlyMustChange ==
    \A r \in Clients :
        Succeeded(r, ProvisionRoutes) =>
            /\ res[r].uid \in DOMAIN authUsers
            /\ authUsers[res[r].uid].claims = {<<"mustChangePassword", TRUE>>}

\* grant-admin has succeeded on an identity that held another claim
C23_Witness ==
    \E r \in Clients :
        /\ Succeeded(r, {GrantAdmin})
        /\ KnownBefore(r)
        /\ pre[r].authUsers[UidBefore(r)].claims = ForeignClaims
        /\ authUsers[UidBefore(r)].claims = {<<"mustChangePassword", TRUE>>}

PasswordOf(ids, u) == ids[u].password

\* a step changes the credential of an identity only as the password update
\* of a grant-admin request that supplied tempPassword, and to that value
RotationOnly ==
    \A u \in DOMAIN authUsers :
        PasswordOf(authUsers', u) # PasswordOf(authUsers, u) =>
            \E r \in Clients :
                /\ req[r].route = GrantAdmin
                /\ req[r].pc = "updateUser"
                /\ req[r].userRecord = u
                /\ req[r].tempPassword # ""
                /\ PasswordOf(authUsers', u) = req[r].tempPassword

\* the request has ended in a way that the claim says leaves credentials alone
LeavesCredentials(r) ==
    /\ req[r].pc = "done"
    /\ \/ req[r].route = GrantAdmin /\ req[r].tempPassword = ""
       \/ req[r].route \in CreateNewRoutes /\ res[r].status = 409
       \/ req[r].route \in StatusRoutes

\* C24: the credential of an identity that exists changes only in a
\* grant-admin request that supplies tempPassword, and becomes that value;
\* grant-admin without tempPassword, a create call answered 409 and every
\* lifecycle call leave the credential of every existing identity as it was.
C24_OnlyGrantAdminRotates ==
    /\ [][RotationOnly]_vars
    /\ [](\A r \in Clients :
            LeavesCredentials(r) =>
                \A u \in DOMAIN pre[r].authUsers :
                    PasswordOf(authUsers, u) = PasswordOf(pre[r].authUsers, u))

\* grant-admin with tempPassword has succeeded on an identity that had
\* another credential
C24_Witness ==
    \E r \in Clients :
        /\ Succeeded(r, {GrantAdmin})
        /\ KnownBefore(r)
        /\ req[r].tempPassword # ""
        /\ PasswordOf(pre[r].authUsers, UidBefore(r)) # req[r].tempPassword
        /\ PasswordOf(authUsers, UidBefore(r)) = req[r].tempPassword

\* the request created an identity or updated the password of one
SetCredential(r) == calls[r].createUser = 1 \/ calls[r].updateUser = 1

\* the two password fields of a profile document
PasswordFields(doc) == [f \in DOMAIN doc \cap {"tempPassword", "passwordGeneratedAt"} |-> doc[f]]

\* C25: a successful provisioning call returns tempPassword exactly when it
\* created the identity or updated its password; it then returns the
\* credential it set (the supplied tempPassword if there was one) and writes
\* it, with passwordGeneratedAt, into the profile; otherwise it returns none
\* and leaves both fields of the profile as they were.
C25_TempPasswordIffCredentialSet ==
    \A r \in Clients :
        Succeeded(r, ProvisionRoutes) =>
            LET uid == res[r].uid IN
            /\ res[r].tempPassword # "" <=> SetCredential(r)
            /\ SetCredential(r) =>
                /\ res[r].tempPassword = authUsers[uid].password
                /\ req[r].tempPassword # "" => res[r].tempPassword = req[r].tempPassword
                /\ DOMAIN PasswordFields(users[uid]) = {"tempPassword", "passwordGeneratedAt"}
                /\ users[uid].tempPassword = res[r].tempPassword
            /\ ~SetCredential(r) => PasswordFields(users[uid]) = PasswordFields(TargetBefore(r))

\* grant-admin has rotated the credential of an identity whose profile held
\* the generated one: the response and the profile carry the new value
C25_Witness ==
    \E r \in Clients :
        /\ Succeeded(r, {GrantAdmin})
        /\ calls[r].updateUser = 1
        /\ "tempPassword" \in DOMAIN TargetBefore(r)
        /\ TargetBefore(r).tempPassword # req[r].tempPassword
        /\ res[r].tempPassword = req[r].tempPassword
        /\ users[res[r].uid].tempPassword = req[r].tempPassword

---------------------------------------------------------------------------
(* Order of the writes and partial failure *)

\* the claims write or the profile write of the request has failed after the
\* request created the identity
FailedAfterCreate(r) ==
    /\ req[r].pc = "done"
    /\ req[r].route \in ProvisionRoutes
    /\ req[r].generated # ""
    /\ res[r].error \in {"setCustomUserClaims", "set"}

\* C26: a provisioning request attempts each write at most once and in the
\* order identity (create or password update), claims, profile.  When the
\* claims write or the profile write fails after the identity was created,
\* the answer is 500, the identity is still there, no profile has been
\* written, and the handler has made no further call.
C26_WriteOrderNoRollback ==
    \A r \in Clients :
        req[r].route \in ProvisionRoutes =>
            /\ calls[r].createUser + calls[r].updateUser <= 1
            /\ calls[r].setCustomUserClaims <= 1
            /\ calls[r].set <= 1
            /\ req[r].pc \in {"createUser", "updateUser"} =>
                    calls[r].setCustomUserClaims = 0 /\ calls[r].set = 0
            /\ req[r].pc = "setCustomUserClaims" => calls[r].set = 0
            /\ calls[r].set = 1 => calls[r].setCustomUserClaims = 1
            /\ Succeeded(r, ProvisionRoutes) =>
                    calls[r].setCustomUserClaims = 1 /\ calls[r].set = 1
            /\ FailedAfterCreate(r) =>
                /\ res[r].status = 500
                /\ req[r].userRecord \in DOMAIN authUsers
                /\ authUsers[req[r].userRecord].email = req[r].email.s
                /\ authUsers[req[r].userRecord].password = req[r].generated
                /\ users = pre[r].users
                /\ req[r].userRecord \notin DOMAIN users
                /\ calls[r].createUser = 1
                /\ calls[r].updateUser = 0
                /\ calls[r].set = (IF res[r].error = "set" THEN 1 ELSE 0)

\* the profile write has failed after the identity was created and its
\* claims were set: the identity is left without a profile
C26_Witness ==
    \E r \in Clients :
        /\ FailedAfterCreate(r)
        /\ res[r].error = "set"
        /\ res[r].status = 500
        /\ authUsers[req[r].userRecord].claims = {<<"mustChangePassword", TRUE>>}
        /\ req[r].userRecord \notin DOMAIN users

---------------------------------------------------------------------------
(* Roles *)

IsAdminProfile(docs, u) ==
    u \in DOMAIN docs /\ "userType" \in DOMAIN docs[u] /\ docs[u].userType = "admin"

AdminStaysAdmin == \A u \in DOMAIN users : IsAdminProfile(users, u) => IsAdminProfile(users', u)

\* C27: a profile whose userType is "admin" keeps that userType through
\* every step of every request.
C27_AdminNeverDemoted == [][AdminStaysAdmin]_vars

\* the profile of uid, as it was when the request arrived, says "Inactive"
InactiveBefore(r, uid) ==
    /\ uid \in DOMAIN pre[r].users
    /\ "accountStatus" \in DOMAIN pre[r].users[uid]
    /\ pre[r].users[uid].accountStatus = "Inactive"

\* C28: the bearer-token + role guard lets a request through whenever its
\* token verifies and the profile of the token's uid is an admin profile,
\* whatever else that profile holds, accountStatus included: such a request
\* is never answered 403, and is answered 401 only when a call of the guard
\* failed.
C28_GuardIgnoresAccountStatus ==
    \A r \in Clients :
        (/\ GuardOf(app, req[r].route) = "authenticateAdmin"
         /\ req[r].route \in RoutesOf(app)
         /\ BearerOf(r) \in DOMAIN pre[r].authUsers
         /\ AdminBefore(r, BearerOf(r))) =>
            /\ res[r].status # 403
            /\ res[r].status = 401 => req[r].faulted
            /\ req[r].pc \notin {"idle", "authenticateAdmin", "loadProfile"} =>
                    HandlerInvoked(r) \/ (res[r].status = 401 /\ req[r].faulted)

\* the administrator, made inactive by an earlier make-inactive call, has
\* passed the guard
C28_Witness ==
    \E r \in Clients :
        /\ GuardOf(app, req[r].route) = "authenticateAdmin"
        /\ BearerOf(r) = AdminUid
        /\ AdminBefore(r, AdminUid)
        /\ InactiveBefore(r, AdminUid)
        /\ req[r].pc = "handler"
        /\ req[r].user = AdminUid

---------------------------------------------------------------------------
(* Identities left without a profile *)

\* the identity has no profile, and the request that created it is over
Orphaned(u) ==
    /\ u \in DOMAIN authUsers
    /\ u \notin DOMAIN users
    /\ \A r \in Clients :
          ~(req[r].pc \notin {"idle", "done"} /\ req[r].generated # "" /\ req[r].userRecord = u)

\* the email of the body had an identity without a profile when the request
\* arrived
OrphanBefore(r) == KnownBefore(r) /\ UidBefore(r) \notin DOMAIN pre[r].users

\* a step gives an orphaned identity a profile only as the profile write of a
\* grant-admin or a lifecycle request
AdoptedOnlyByGrantOrStatus ==
    \A u \in DOMAIN authUsers :
        Orphaned(u) /\ u \in DOMAIN users' =>
            \E r \in Clients :
                /\ req[r].pc = "set"
                /\ req[r].route \in {GrantAdmin} \cup StatusRoutes

\* C29: a create request (create-user, ghl/create-user, ghl/create-trial-user)
\* for an email whose identity was left without a profile writes nothing and,
\* once its lookup has answered, ends with 409; the identity has no profile
\* afterwards either, and gets one only from a grant-admin or a lifecycle
\* request.
C29_OrphanStaysUntilGrantOrStatus ==
    /\ [](\A r \in Clients :
            (req[r].pc # "idle" /\ req[r].route \in CreateNewRoutes /\ OrphanBefore(r)) =>
                /\ WriteCalls(r) = 0
                /\ authUsers = pre[r].authUsers
                /\ users = pre[r].users
                /\ UidBefore(r) \notin DOMAIN users
                /\ (req[r].pc = "done" /\ calls[r].getUserByEmail = 1 /\ ~req[r].faulted) =>
                       (res[r].status = 409 /\ res[r].uid = UidBefore(r)))
    /\ [][AdoptedOnlyByGrantOrStatus]_vars

\* a create call for the email of an identity without a profile has been
\* answered 409
C29_Witness ==
    \E r \in Clients :
        /\ req[r].pc = "done"
        /\ req[r].route \in {GhlCreateUser, GhlCreateTrialUser}
        /\ OrphanBefore(r)
        /\ res[r].status = 409
        /\ Orphaned(UidBefore(r))

---------------------------------------------------------------------------
(* The stored temporary password *)

Quiet == \A r \in Clients : req[r].pc \in {"idle", "done"}

\* C30: whenever no request is in flight, a profile that holds tempPassword
\* holds the credential of its identity, which is the one this service set
\* last.
C30_TempPasswordIsCredential ==
    Quiet =>
        \A u \in DOMAIN users \cap DOMAIN authUsers :
            "tempPassword" \in DOMAIN users[u] =>
                users[u].tempPassword = authUsers[u].password

===========================================================================
